---- MODULE Spec2Model ----
(***************************************************************************)
(* Model of the correction-learning pipeline of the reading aid:           *)
(*   learn.py  - the offline learning tool (Extractor + Synthesizer)       *)
(*   pp6.py    - the device program (capture, in-process learner,          *)
(*               Correction Applicator, text normalization)                *)
(*   train.py  - the interactive sample-correction tool                    *)
(* Texts are sequences of one-character strings, so that splitting,        *)
(* regular-expression matching and substitution are computed, not assumed. *)
(***************************************************************************)
EXTENDS Integers, Sequences, FiniteSets, TLC

(* ----------------------------------------------------------------------- *)
(* Characters and texts                                                    *)
(* ----------------------------------------------------------------------- *)

\* Python's \d (ASCII digits are the ones the texts of the model use)
IsDigit(c) == c \in {"0", "1", "2", "3", "4", "5", "6", "7", "8", "9"}

\* the ASCII letters
IsLetter(c) == c \in {"a", "b", "c", "d", "e", "f", "g", "h", "i", "j", "k", "l", "m",
                      "n", "o", "p", "q", "r", "s", "t", "u", "v", "w", "x", "y", "z",
                      "A", "B", "C", "D", "E", "F", "G", "H", "I", "J", "K", "L", "M",
                      "N", "O", "P", "Q", "R", "S", "T", "U", "V", "W", "X", "Y", "Z"}

\* Python's \w: letters, digits and the underscore
IsWordChar(c) == IsDigit(c) \/ IsLetter(c) \/ c = "_"

\* Python's \s and str.split() separators
IsSpace(c) == c \in {" ", "\n", "\t"}

\* s[a..b-1] as Python's s[a:b] with 0-based a, b (0 <= a <= b <= len)
Slice(s, a, b) == SubSeq(s, a + 1, b)

\* whether s has the literal lit at 0-based offset i
HasAt(s, i, lit) ==
    /\ i + Len(lit) <= Len(s)
    /\ \A k \in 1..Len(lit) : s[i + k] = lit[k]

\* Python's  lit in s
Contains(s, lit) == \E i \in 0..Len(s) : HasAt(s, i, lit)

\* Python's \b at 0-based offset i of s: exactly one side is a word character
AtBoundary(s, i) ==
    LET before == i >= 1 /\ i <= Len(s) /\ IsWordChar(s[i])
        after  == i < Len(s) /\ IsWordChar(s[i + 1])
    IN  before # after

RECURSIVE SplitFrom(_, _, _)
\* str.split() without arguments: maximal runs of non-whitespace, in order.
\* i is the 1-based position to read, cur the token being collected.
SplitFrom(s, i, cur) ==
    IF i > Len(s)
    THEN IF cur = <<>> THEN <<>> ELSE <<cur>>
    ELSE IF IsSpace(s[i])
         THEN IF cur = <<>>
              THEN SplitFrom(s, i + 1, <<>>)
              ELSE <<cur>> \o SplitFrom(s, i + 1, <<>>)
         ELSE SplitFrom(s, i + 1, Append(cur, s[i]))

Split(s) == SplitFrom(s, 1, <<>>)

(* ----------------------------------------------------------------------- *)
(* difflib.SequenceMatcher(None, a, b) on token sequences                  *)
(* (no junk; the popularity heuristic only acts on sequences of 200+)      *)
(* ----------------------------------------------------------------------- *)

\* length of the common run of a from i and b from j (0-based), inside
\* a[..ahi) and b[..bhi)
RECURSIVE RunLen(_, _, _, _, _, _)
RunLen(a, b, i, j, ahi, bhi) ==
    IF i < ahi /\ j < bhi /\ a[i + 1] = b[j + 1]
    THEN 1 + RunLen(a, b, i + 1, j + 1, ahi, bhi)
    ELSE 0

Max(S) == CHOOSE x \in S : \A y \in S : y <= x
Min(S) == CHOOSE x \in S : \A y \in S : x <= y

\* find_longest_match: the longest block; among those the earliest in a;
\* among those the earliest in b; (alo, blo, 0) when nothing matches
FindLongestMatch(a, b, alo, ahi, blo, bhi) ==
    LET cand == { <<i, j>> \in (alo..(ahi - 1)) \X (blo..(bhi - 1)) :
                    a[i + 1] = b[j + 1] }
    IN  IF cand = {}
        THEN <<alo, blo, 0>>
        ELSE LET k  == Max({ RunLen(a, b, p[1], p[2], ahi, bhi) : p \in cand })
                 bi == Min({ p[1] : p \in { q \in cand :
                                  RunLen(a, b, q[1], q[2], ahi, bhi) = k } })
                 bj == Min({ p[2] : p \in { q \in cand :
                                  /\ q[1] = bi
                                  /\ RunLen(a, b, q[1], q[2], ahi, bhi) = k } })
             IN  <<bi, bj, k>>

\* the blocks of get_matching_blocks before the final sentinel, in order:
\* the longest block, then the same on the gap to its left and to its right
RECURSIVE MatchingBlocks(_, _, _, _, _, _)
MatchingBlocks(a, b, alo, ahi, blo, bhi) ==
    LET m == FindLongestMatch(a, b, alo, ahi, blo, bhi)
        i == m[1]
        j == m[2]
        k == m[3]
    IN  IF k = 0
        THEN <<>>
        ELSE (IF alo < i /\ blo < j
              THEN MatchingBlocks(a, b, alo, i, blo, j) ELSE <<>>)
             \o <<m>>
             \o (IF i + k < ahi /\ j + k < bhi
                 THEN MatchingBlocks(a, b, i + k, ahi, j + k, bhi) ELSE <<>>)

\* get_matching_blocks merges adjacent blocks
RECURSIVE Collapse(_, _)
Collapse(blocks, acc) ==
    IF blocks = <<>>
    THEN IF acc[3] = 0 THEN <<>> ELSE <<acc>>
    ELSE LET h == Head(blocks)
         IN  IF acc[1] + acc[3] = h[1] /\ acc[2] + acc[3] = h[2]
             THEN Collapse(Tail(blocks), <<acc[1], acc[2], acc[3] + h[3]>>)
             ELSE (IF acc[3] = 0 THEN <<>> ELSE <<acc>>)
                  \o Collapse(Tail(blocks), h)

GetMatchingBlocks(a, b) ==
    Collapse(MatchingBlocks(a, b, 0, Len(a), 0, Len(b)), <<0, 0, 0>>)
        \o << <<Len(a), Len(b), 0>> >>

\* get_opcodes: records [tag, i1, i2, j1, j2]
RECURSIVE OpcodesFrom(_, _, _)
OpcodesFrom(blocks, i, j) ==
    IF blocks = <<>> THEN <<>>
    ELSE LET ai   == Head(blocks)[1]
             bj   == Head(blocks)[2]
             size == Head(blocks)[3]
             tag  == IF i < ai /\ j < bj THEN "replace"
                     ELSE IF i < ai THEN "delete"
                     ELSE IF j < bj THEN "insert"
                     ELSE ""
         IN  (IF tag # ""
              THEN << [tag |-> tag, i1 |-> i, i2 |-> ai, j1 |-> j, j2 |-> bj] >>
              ELSE <<>>)
             \o (IF size > 0
                 THEN << [tag |-> "equal", i1 |-> ai, i2 |-> ai + size,
                          j1 |-> bj, j2 |-> bj + size] >>
                 ELSE <<>>)
             \o OpcodesFrom(Tail(blocks), ai + size, bj + size)

GetOpcodes(a, b) == OpcodesFrom(GetMatchingBlocks(a, b), 0, 0)

(* ----------------------------------------------------------------------- *)
(* Extractor: the word-level observations of one sample                    *)
(* ----------------------------------------------------------------------- *)

\* an aligner that takes only the first pair of a replace region
FirstPairOnly(ocr_words, correct_words, op) ==
    << <<ocr_words[op.i1 + 1], correct_words[op.j1 + 1]>> >>

\* zip(range(i1, i2), range(j1, j2)) of one replace opcode, as <<wrong, right>>
ReplacePairs(ocr_words, correct_words, op) ==
    LET n == IF op.i2 - op.i1 < op.j2 - op.j1
             THEN op.i2 - op.i1 ELSE op.j2 - op.j1
    IN  [k \in 1..n |-> <<ocr_words[op.i1 + k], correct_words[op.j1 + k]>>]

RECURSIVE PairsOfOpcodes(_, _, _)
PairsOfOpcodes(ocr_words, correct_words, ops) ==
    IF ops = <<>> THEN <<>>
    ELSE (IF Head(ops).tag = "replace"
          THEN ReplacePairs(ocr_words, correct_words, Head(ops))
          ELSE <<>>)
         \o PairsOfOpcodes(ocr_words, correct_words, Tail(ops))

\* an extractor that pairs the words of the two texts position by position
PairingByPosition(ocr_text, correct_text) ==
    LET ocr_words     == Split(ocr_text)
        correct_words == Split(correct_text)
        n             == IF Len(ocr_words) < Len(correct_words)
                         THEN Len(ocr_words) ELSE Len(correct_words)
    IN  [k \in 1..n |-> <<ocr_words[k], correct_words[k]>>]

\* the observations the loop body of analyze_corrections (and of
\* learn_from_corrections) adds for one sample, in the order it adds them
Observations(ocr_text, correct_text) ==
    IF ocr_text = correct_text
    THEN <<>>
    ELSE LET ocr_words     == Split(ocr_text)
             correct_words == Split(correct_text)
         IN  PairsOfOpcodes(ocr_words, correct_words,
                            GetOpcodes(ocr_words, correct_words))

\* word_changes after the loop over the samples: every observation, in the
\* order made.  word_changes[wrong][right] is CountOf; the insertion order of
\* the dictionaries is the order of first occurrence.
RECURSIVE analyze_corrections(_)
analyze_corrections(samples) ==
    IF samples = <<>> THEN <<>>
    ELSE Observations(Head(samples)["ocr_text"], Head(samples)["corrected_text"])
         \o analyze_corrections(Tail(samples))

CountOf(word_changes, wrong, right) ==
    Cardinality({ k \in 1..Len(word_changes) : word_changes[k] = <<wrong, right>> })

FirstIndex(word_changes, wrong, right) ==
    Min({ k \in 1..Len(word_changes) : word_changes[k] = <<wrong, right>> })

RightsOf(word_changes, wrong) ==
    { word_changes[k][2] : k \in { n \in 1..Len(word_changes) :
                                     word_changes[n][1] = wrong } }

\* max(rights.items(), key=lambda x: x[1])[0]: the highest count, the first
\* inserted among equals
MostCommonFix(word_changes, wrong) ==
    LET rights == RightsOf(word_changes, wrong)
        top    == Max({ CountOf(word_changes, wrong, r) : r \in rights })
        tied   == { r \in rights : CountOf(word_changes, wrong, r) = top }
    IN  CHOOSE r \in tied :
            \A q \in tied : FirstIndex(word_changes, wrong, r)
                              <= FirstIndex(word_changes, wrong, q)

\* the keys of word_changes in insertion order
RECURSIVE WrongsInOrder(_, _)
WrongsInOrder(word_changes, seen) ==
    IF word_changes = <<>> THEN <<>>
    ELSE LET w == Head(word_changes)[1]
         IN  IF w \in seen
             THEN WrongsInOrder(Tail(word_changes), seen)
             ELSE <<w>> \o WrongsInOrder(Tail(word_changes), seen \cup {w})

(* ----------------------------------------------------------------------- *)
(* Dictionaries with insertion order: sequences of <<key, value>>          *)
(* ----------------------------------------------------------------------- *)

DictKeys(d) == { d[k][1] : k \in 1..Len(d) }

DictGet(d, key) == d[CHOOSE k \in 1..Len(d) : d[k][1] = key][2]

\* d[key] = value: in place for a key already there, appended otherwise
DictSet(d, key, value) ==
    IF key \in DictKeys(d)
    THEN [k \in 1..Len(d) |-> IF d[k][1] = key THEN <<key, value>> ELSE d[k]]
    ELSE Append(d, <<key, value>>)

\* the number of observations needed before a replacement is kept
MinCount == 2

\* "if count >= 2" (learn.py:98), "if rights[most_common_fix] >= 2" (pp6.py:240)
Kept(count) == count >= MinCount

\* the loop "for wrong, rights in word_changes.items()" storing into base
RECURSIVE StoreReplacements(_, _, _)
StoreReplacements(base, word_changes, wrongs) ==
    IF wrongs = <<>> THEN base
    ELSE LET wrong == Head(wrongs)
             fix   == MostCommonFix(word_changes, wrong)
         IN  StoreReplacements(
                 IF Kept(CountOf(word_changes, wrong, fix))
                 THEN DictSet(base, wrong, fix) ELSE base,
                 word_changes, Tail(wrongs))

(* ----------------------------------------------------------------------- *)
(* Synthesizer: the character-confusion hypotheses                         *)
(* ----------------------------------------------------------------------- *)

\* re.search(r'\d[mid]\d', s) for a set mid of characters
SearchDigitMidDigit(s, mid) ==
    \E i \in 1..(Len(s) - 2) :
        IsDigit(s[i]) /\ s[i + 1] \in mid /\ IsDigit(s[i + 2])

\* re.search(r'\dc', s) for one character c
SearchDigitChar(s, c) ==
    \E i \in 1..(Len(s) - 1) : IsDigit(s[i]) /\ s[i + 1] = c

PatternQQ ==
    [pattern |-> "(\\d+)\\.qq\\b", replacement |-> "\\1.99",
     description |-> "qq at end of price -> 99"]

PatternDollarO ==
    [pattern |-> "\\$[Oo]", replacement |-> "$0",
     description |-> "$O or $o -> $0"]

PatternLI ==
    [pattern |-> "(\\d)[lI](\\d)", replacement |-> "\\g<1>1\\2",
     description |-> "l or I between numbers -> 1"]

PatternO ==
    [pattern |-> "(\\d)[Oo](\\d)", replacement |-> "\\g<1>0\\2",
     description |-> "O in numbers -> 0"]

\* sample.get(key, '') of learn.py
Get(sample, key) == IF key \in DOMAIN sample THEN sample[key] ELSE <<>>

AnySample(samples, P(_)) == \E k \in 1..Len(samples) : P(samples[k])

\* learn.py: the four "if any(...)" tests, in their order
PatternFixesLearnPy(samples) ==
    (IF AnySample(samples, LAMBDA s :
            /\ Contains(Get(s, "ocr_text"), <<"q", "q">>)
            /\ Contains(Get(s, "corrected_text"), <<"9", "9">>))
     THEN <<PatternQQ>> ELSE <<>>)
    \o
    (IF AnySample(samples, LAMBDA s :
            \/ Contains(Get(s, "ocr_text"), <<"$", "O">>)
            \/ Contains(Get(s, "ocr_text"), <<"$", "o">>))
     THEN <<PatternDollarO>> ELSE <<>>)
    \o
    (IF AnySample(samples, LAMBDA s :
            /\ SearchDigitMidDigit(Get(s, "ocr_text"), {"l", "I"})
            /\ SearchDigitMidDigit(Get(s, "corrected_text"), {"1"}))
     THEN <<PatternLI>> ELSE <<>>)
    \o
    (IF AnySample(samples, LAMBDA s :
            /\ SearchDigitMidDigit(Get(s, "ocr_text"), {"O"})
            /\ SearchDigitMidDigit(Get(s, "corrected_text"), {"0"}))
     THEN <<PatternO>> ELSE <<>>)

\* pp6.py: char_patterns of learn_from_corrections (three tests)
PatternFixesPp6(samples) ==
    (IF AnySample(samples, LAMBDA s :
            /\ Contains(s["ocr_text"], <<"q", "q">>)
            /\ Contains(s["corrected_text"], <<"9", "9">>))
     THEN <<PatternQQ>> ELSE <<>>)
    \o
    (IF AnySample(samples, LAMBDA s :
            \/ Contains(s["ocr_text"], <<"$", "O">>)
            \/ Contains(s["ocr_text"], <<"$", "o">>))
     THEN <<PatternDollarO>> ELSE <<>>)
    \o
    (IF AnySample(samples, LAMBDA s :
            /\ SearchDigitChar(s["ocr_text"], "l")
            /\ SearchDigitChar(s["corrected_text"], "1"))
     THEN <<PatternLI>> ELSE <<>>)

\* the rule set both learners start from (learn.py:86, pp6.py:62)
EmptyRules ==
    [word_replacements |-> <<>>, pattern_fixes |-> <<>>,
     context_corrections |-> <<>>]

\* learn.py: the rule set is built from nothing on every run
create_learned_corrections(word_changes, samples) ==
    [word_replacements |->
         StoreReplacements(<<>>, word_changes, WrongsInOrder(word_changes, {})),
     pattern_fixes |-> PatternFixesLearnPy(samples),
     context_corrections |-> <<>>]

(* ----------------------------------------------------------------------- *)
(* Regular expressions: the patterns of pp6.py and learn.py as sequences   *)
(* of quantified character sets and \b assertions, matched as re matches   *)
(* them (leftmost, greedy, backtracking)                                   *)
(* ----------------------------------------------------------------------- *)

Digits == {"0", "1", "2", "3", "4", "5", "6", "7", "8", "9"}
Spaces == {" ", "\n", "\t"}

\* one item of a pattern; max = -1 is no upper limit; grp is the capture
\* group the item lies in (0 for none)
One(chars, grp)  == [kind |-> "set", chars |-> chars, min |-> 1, max |-> 1, grp |-> grp]
Opt(chars, grp)  == [kind |-> "set", chars |-> chars, min |-> 0, max |-> 1, grp |-> grp]
Plus(chars, grp) == [kind |-> "set", chars |-> chars, min |-> 1, max |-> -1, grp |-> grp]
Star(chars, grp) == [kind |-> "set", chars |-> chars, min |-> 0, max |-> -1, grp |-> grp]
WordBoundary     == [kind |-> "b", chars |-> {}, min |-> 0, max |-> 0, grp |-> 0]

\* a literal character and a group reference of a replacement template
L(c) == [g |-> 0, c |-> c]
G(n) == [g |-> n, c |-> ""]
Lit(str) == [k \in 1..Len(str) |-> L(str[k])]

RECURSIVE Run(_, _, _, _)
\* how many characters of s from 0-based offset pos lie in chars, cap at most
Run(s, pos, chars, cap) ==
    IF cap = 0 \/ pos >= Len(s) THEN 0
    ELSE IF s[pos + 1] \notin chars THEN 0
    ELSE 1 + Run(s, pos + 1, chars, cap - 1)

NoMatch == [ok |-> FALSE, ends |-> <<>>]

RECURSIVE MatchItems(_, _, _, _)
RECURSIVE TryCount(_, _, _, _, _)
\* match items k.. of a pattern at offset pos: the offsets where each ends
MatchItems(items, k, s, pos) ==
    IF k > Len(items) THEN [ok |-> TRUE, ends |-> <<>>]
    ELSE IF items[k].kind = "b"
    THEN IF AtBoundary(s, pos)
         THEN LET r == MatchItems(items, k + 1, s, pos)
              IN  IF r.ok THEN [ok |-> TRUE, ends |-> <<pos>> \o r.ends] ELSE NoMatch
         ELSE NoMatch
    ELSE TryCount(items, k, s, pos, Run(s, pos, items[k].chars, items[k].max))

\* greedy repetition: the longest count first, backing off to the minimum
TryCount(items, k, s, pos, n) ==
    IF n < items[k].min THEN NoMatch
    ELSE LET r == MatchItems(items, k + 1, s, pos + n)
         IN  IF r.ok THEN [ok |-> TRUE, ends |-> <<pos + n>> \o r.ends]
             ELSE TryCount(items, k, s, pos, n - 1)

\* the text captured by group g of a match that started at pos
GroupText(items, ends, s, pos, g) ==
    LET ks    == {k \in 1..Len(items) : items[k].grp = g}
        first == CHOOSE k \in ks : \A j \in ks : k <= j
        last  == CHOOSE k \in ks : \A j \in ks : j <= k
    IN  Slice(s, IF first = 1 THEN pos ELSE ends[first - 1], ends[last])

RECURSIVE Expand(_, _, _, _, _, _)
\* the replacement template expanded for one match
Expand(tmpl, k, items, ends, s, pos) ==
    IF k > Len(tmpl) THEN <<>>
    ELSE (IF tmpl[k].g = 0 THEN <<tmpl[k].c>>
          ELSE GroupText(items, ends, s, pos, tmpl[k].g))
         \o Expand(tmpl, k + 1, items, ends, s, pos)

RECURSIVE SubFrom(_, _, _, _)
\* re.sub from offset pos on: non-overlapping matches, leftmost first.  Every
\* pattern of the program consumes at least one character.
SubFrom(items, tmpl, s, pos) ==
    IF pos >= Len(s) THEN <<>>
    ELSE LET r == MatchItems(items, 1, s, pos)
         IN  IF r.ok /\ r.ends[Len(r.ends)] > pos
             THEN Expand(tmpl, 1, items, r.ends, s, pos)
                  \o SubFrom(items, tmpl, s, r.ends[Len(r.ends)])
             ELSE <<s[pos + 1]>> \o SubFrom(items, tmpl, s, pos + 1)

re_sub(items, tmpl, s) == SubFrom(items, tmpl, s, 0)

\* r'\b' + re.escape(wrong) + r'\b'
WordPattern(wrong) ==
    <<WordBoundary>> \o [k \in 1..Len(wrong) |-> One({wrong[k]}, 0)] \o <<WordBoundary>>

\* a pattern no regular expression compiler accepts, and a template naming
\* a group no catalogue pattern has
BadPattern  == "("
BadTemplate == "\\3"

\* re.compile of the pattern strings of the catalogue
Compiles(p) ==
    p \in {"(\\d+)\\.qq\\b", "\\$[Oo]", "(\\d)[lI](\\d)", "(\\d)[Oo](\\d)"}

Compile(p) ==
    CASE p = "(\\d+)\\.qq\\b"  -> <<Plus(Digits, 1), One({"."}, 0), One({"q"}, 0),
                                    One({"q"}, 0), WordBoundary>>
      [] p = "\\$[Oo]"         -> <<One({"$"}, 0), One({"O", "o"}, 0)>>
      [] p = "(\\d)[lI](\\d)"  -> <<One(Digits, 1), One({"l", "I"}, 0), One(Digits, 2)>>
      [] p = "(\\d)[Oo](\\d)"  -> <<One(Digits, 1), One({"O", "o"}, 0), One(Digits, 2)>>

\* the replacement templates of the catalogue, parsed
TemplateParses(r) ==
    r \in {"\\1.99", "$0", "\\g<1>1\\2", "\\g<1>0\\2", BadTemplate}

Template(r) ==
    CASE r = "\\1.99"      -> <<G(1), L("."), L("9"), L("9")>>
      [] r = "$0"          -> <<L("$"), L("0")>>
      [] r = "\\g<1>1\\2"  -> <<G(1), L("1"), G(2)>>
      [] r = "\\g<1>0\\2"  -> <<G(1), L("0"), G(2)>>
      [] r = BadTemplate   -> <<G(3)>>

\* re.sub raises re.error for a pattern that does not compile and for a
\* template that refers to a group the pattern does not have
SubRaises(p, r) ==
    \/ ~Compiles(p)
    \/ ~TemplateParses(r)
    \/ \E k \in 1..Len(Template(r)) :
           \A j \in 1..Len(Compile(p)) : Compile(p)[j].grp # Template(r)[k].g /\ Template(r)[k].g # 0

(* ----------------------------------------------------------------------- *)
(* The Correction Applicator                                               *)
(* ----------------------------------------------------------------------- *)

RECURSIVE ApplyWords(_, _, _)
\* the loop over word_replacements.items(), in the dict's order
ApplyWords(word_replacements, k, text) ==
    IF k > Len(word_replacements) THEN text
    ELSE ApplyWords(word_replacements, k + 1,
                    re_sub(WordPattern(word_replacements[k][1]),
                           Lit(word_replacements[k][2]), text))

RECURSIVE ApplyFixes(_, _, _)
\* the loop over pattern_fixes; re.error leaves the function at once
ApplyFixes(pattern_fixes, k, text) ==
    IF k > Len(pattern_fixes) THEN [raised |-> FALSE, text |-> text]
    ELSE IF SubRaises(pattern_fixes[k].pattern, pattern_fixes[k].replacement)
    THEN [raised |-> TRUE, text |-> text]
    ELSE ApplyFixes(pattern_fixes, k + 1,
                    re_sub(Compile(pattern_fixes[k].pattern),
                           Template(pattern_fixes[k].replacement), text))

\* apply_learned_corrections with LEARNING_ENABLED = True: the text it
\* returns, or raised when an exception leaves it
apply_learned_corrections(text, rules) ==
    IF "word_replacements" \notin DOMAIN rules \/ "pattern_fixes" \notin DOMAIN rules
    THEN [raised |-> TRUE, text |-> text]
    ELSE ApplyFixes(rules["pattern_fixes"], 1,
                    ApplyWords(rules["word_replacements"], 1, text))

(* ----------------------------------------------------------------------- *)
(* Spellcheck and the Normalization Pipeline                               *)
(* ----------------------------------------------------------------------- *)

LowerLetters == <<"a", "b", "c", "d", "e", "f", "g", "h", "i", "j", "k", "l", "m",
                  "n", "o", "p", "q", "r", "s", "t", "u", "v", "w", "x", "y", "z">>
UpperLetters == <<"A", "B", "C", "D", "E", "F", "G", "H", "I", "J", "K", "L", "M",
                  "N", "O", "P", "Q", "R", "S", "T", "U", "V", "W", "X", "Y", "Z">>

IsUpperLetter(c) == \E k \in 1..Len(UpperLetters) : UpperLetters[k] = c
IsLowerLetter(c) == \E k \in 1..Len(LowerLetters) : LowerLetters[k] = c

LowerChar(c) ==
    IF IsUpperLetter(c)
    THEN LowerLetters[CHOOSE k \in 1..Len(UpperLetters) : UpperLetters[k] = c]
    ELSE c

UpperChar(c) ==
    IF IsLowerLetter(c)
    THEN UpperLetters[CHOOSE k \in 1..Len(LowerLetters) : LowerLetters[k] = c]
    ELSE c

\* str.lower, str.upper, str.capitalize, str.isupper
Lower(w) == [k \in 1..Len(w) |-> LowerChar(w[k])]
Upper(w) == [k \in 1..Len(w) |-> UpperChar(w[k])]
Capitalize(w) == [k \in 1..Len(w) |-> IF k = 1 THEN UpperChar(w[k]) ELSE LowerChar(w[k])]
IsUpper(w) ==
    /\ \E k \in 1..Len(w) : IsUpperLetter(w[k])
    /\ \A k \in 1..Len(w) : ~IsLowerLetter(w[k])

RECURSIVE ReplaceAll(_, _, _, _)
\* str.replace(old, new) from 0-based offset pos on, old not empty
ReplaceAll(s, old, new, pos) ==
    IF pos >= Len(s) THEN <<>>
    ELSE IF HasAt(s, pos, old)
    THEN new \o ReplaceAll(s, old, new, pos + Len(old))
    ELSE <<s[pos + 1]>> \o ReplaceAll(s, old, new, pos + 1)

RECURSIVE Join(_, _)
\* ' '.join(words) from the k-th word on
Join(words, k) ==
    IF k > Len(words) THEN <<>>
    ELSE IF k = Len(words) THEN words[k]
    ELSE words[k] \o <<" ">> \o Join(words, k + 1)

\* the words the spell checker's dictionary of the model knows, and the
\* corrections it offers for other lower-cased words (none: the word is kept)
Dictionary ==
    {<<"t", "h", "e">>, <<"t", "e", "n">>, <<"c", "a", "t">>, <<"c", "o", "s", "t">>}

HasCorrection(w) == w = <<"t", "e", "h">>
Correction(w) == <<"t", "h", "e">>

\* one word of apply_spellcheck's loop
SpellWord(word) ==
    LET clean_word == SelectSeq(word, IsWordChar)
    IN  IF \A k \in 1..Len(word) : word[k] \in Digits \cup {"$", ".", ",", "%", "@", "#"}
        THEN word
        ELSE IF Len(word) <= 2 THEN word
        ELSE IF clean_word = <<>> THEN word
        ELSE IF Lower(clean_word) \in Dictionary THEN word
        ELSE IF HasCorrection(Lower(clean_word))
        THEN ReplaceAll(word, clean_word,
                        IF IsUpper(clean_word) THEN Upper(Correction(Lower(clean_word)))
                        ELSE IF IsUpperLetter(clean_word[1])
                        THEN Capitalize(Correction(Lower(clean_word)))
                        ELSE Correction(Lower(clean_word)),
                        0)
        ELSE word

\* apply_spellcheck: the text itself while spell is None, else the
\* checked words joined by single spaces
apply_spellcheck(text, spellLoaded) ==
    IF ~spellLoaded THEN text
    ELSE Join([k \in 1..Len(Split(text)) |-> SpellWord(Split(text)[k])], 1)

\* the substitutions of cleanText after the spell check, in order
StandardCleanup ==
    << [items |-> <<One({"$"}, 0), One({"O", "o"}, 0)>>,
        tmpl  |-> <<L("$"), L("0")>>],
       [items |-> <<One({"$"}, 0), One({"l", "I"}, 0)>>,
        tmpl  |-> <<L("$"), L("1")>>],
       [items |-> <<One(Digits, 1), One({"O", "o"}, 0), One(Digits, 2)>>,
        tmpl  |-> <<G(1), L(" "), L("0"), L(" "), G(2)>>],
       [items |-> <<One(Digits, 1), One({"l", "I"}, 0), One(Digits, 2)>>,
        tmpl  |-> <<G(1), L(" "), L("1"), L(" "), G(2)>>],
       [items |-> <<One({"O", "o"}, 0), One(Digits, 1)>>,
        tmpl  |-> <<L("0"), G(1)>>],
       [items |-> <<One(Digits, 1), One({"O", "o"}, 0)>>,
        tmpl  |-> <<G(1), L(" "), L("0")>>],
       [items |-> <<One(Digits, 1), Star(Spaces, 0), One({":"}, 0), Star(Spaces, 0),
                    One(Digits, 2)>>,
        tmpl  |-> <<G(1), L(":"), G(2)>>],
       [items |-> <<One(Digits, 1), Star(Spaces, 0), One({"/"}, 0), Star(Spaces, 0),
                    One(Digits, 2)>>,
        tmpl  |-> <<G(1), L("/"), G(2)>>],
       [items |-> <<One({"$"}, 0), Plus(Digits, 1), Opt({"."}, 1), Star(Digits, 1)>>,
        tmpl  |-> <<G(1)>> \o Lit(<<" ", "d", "o", "l", "l", "a", "r", "s", " ">>)] >>

\* the symbols cleanText spells out
SymbolWords ==
    << <<"%", <<" ", "p", "e", "r", "c", "e", "n", "t", " ">> >>,
       <<"&", <<" ", "a", "n", "d", " ">> >>,
       <<"@", <<" ", "a", "t", " ">> >>,
       <<"#", <<" ", "n", "u", "m", "b", "e", "r", " ">> >>,
       <<"+", <<" ", "p", "l", "u", "s", " ">> >>,
       <<"=", <<" ", "e", "q", "u", "a", "l", "s", " ">> >>,
       <<"*", <<" ", "t", "i", "m", "e", "s", " ">> >>,
       <<"°", <<" ", "d", "e", "g", "r", "e", "e", "s", " ">> >> >>

RECURSIVE Cleanup(_, _)
Cleanup(k, text) ==
    IF k > Len(StandardCleanup) THEN text
    ELSE Cleanup(k + 1, re_sub(StandardCleanup[k].items, StandardCleanup[k].tmpl, text))

RECURSIVE SpellOut(_, _)
SpellOut(k, text) ==
    IF k > Len(SymbolWords) THEN text
    ELSE SpellOut(k + 1, ReplaceAll(text, <<SymbolWords[k][1]>>, SymbolWords[k][2], 0))

\* re.sub(r'\s+', ' ', text)
CollapseSpaces(text) == re_sub(<<Plus(Spaces, 0)>>, <<L(" ")>>, text)

RECURSIVE Strip(_)
\* str.strip()
Strip(text) ==
    IF text = <<>> THEN text
    ELSE IF IsSpace(text[1]) THEN Strip(Tail(text))
    ELSE IF IsSpace(text[Len(text)]) THEN Strip(SubSeq(text, 1, Len(text) - 1))
    ELSE text

\* the steps of cleanText between the learned corrections and the write
Normalize(text) == Strip(CollapseSpaces(SpellOut(1, Cleanup(1, text))))

\* cleanText on the content of /tmp/text.txt: whether it wrote the file and
\* what the file holds afterwards.  An exception anywhere is logged and
\* leaves the file as the OCR engine wrote it.
cleanText(text, rules, spellLoaded) ==
    LET basic   == re_sub(<<One({"$"}, 0), Plus(Spaces, 0)>>, <<L("$")>>,
                          CollapseSpaces(text))
        learned == apply_learned_corrections(basic, rules)
    IN  IF learned.raised THEN [wrote |-> FALSE, text |-> text]
        ELSE [wrote |-> TRUE,
              text  |-> Normalize(apply_spellcheck(learned.text, spellLoaded))]

(* ----------------------------------------------------------------------- *)
(* The disk: directories of named files; JSON records as token sequences   *)
(* ----------------------------------------------------------------------- *)

VARIABLES
    files,                \* [directory -> [file name -> content]]
    rulesFile,            \* learned_corrections.json
    learned_corrections,  \* pp6.py's global rule set
    lastPass,             \* the last learning pass: the tool, its outcome and exit
                          \* code, the samples it analysed, the rule set it
                          \* started from and ended with, whether it persisted it
    applied,              \* a text and what apply_learned_corrections made of it,
                          \* call after call
    SPELLCHECK_AVAILABLE, \* whether the spellchecker package could be imported
    spell,                \* whether pp6.py's global spell holds a SpellChecker
    textFile,             \* /tmp/text.txt
    lastClean,            \* the last cleanText call: what it read, whether it wrote
    now,                  \* int(time.time())
    captures,             \* how many captures the device has processed
    crashed,              \* whether the device program ended on an exception
    ui,                   \* train.py: where its session stands, the samples it
                          \* loaded, what it has saved for each sample id, how
                          \* the last prompt was answered
    writer,               \* a save in progress: the file, the text to write and
                          \* how much of it is written
    reader                \* a load in progress: the file, what was read so far

vars == <<files, rulesFile, learned_corrections, lastPass, applied,
          SPELLCHECK_AVAILABLE, spell, textFile, lastClean, now, captures, crashed, ui,
          writer, reader>>

\* the variables of a save and a load taken step by step
stepVars == <<writer, reader>>

\* the variables the learning tools leave alone
deviceVars == <<SPELLCHECK_AVAILABLE, spell, textFile, lastClean, now, captures,
                crashed>>

\* pp6.py:50 and learn.py:17 (LEARNING_DIR joined with "training_data")
TRAINING_DATA_DIR == "/home/admin/pi/corrections/training_data"

\* train.py:8
TRAINING_DIR == "/home/admin/pi/ai_models/training_data/"

\* file names: <<n, "json">> is sample_n.json, <<n, "jpg">> is sample_n.jpg
JsonName(n) == <<n, "json">>
JpgName(n)  == <<n, "jpg">>

\* filename.endswith('.json')
EndsWithJson(name) == name[2] = "json"

SampleKeys == <<"id", "timestamp", "ocr_text", "corrected_text", "image_path">>

\* the members json.dump writes as strings of characters; the others (the
\* id, the timestamp, the image path) are written as one token each
TextKeys == {"ocr_text", "corrected_text"}

Member(key, val) ==
    IF key \in TextKeys
    THEN << [t |-> "key", key |-> key], [t |-> "quote"] >>
         \o [k \in 1..Len(val) |-> [t |-> "char", c |-> val[k]]]
         \o << [t |-> "quote"] >>
    ELSE << [t |-> "key", key |-> key], [t |-> "value", val |-> val] >>

RECURSIVE Members(_, _, _)
Members(obj, keys, k) ==
    IF k > Len(keys) THEN <<>>
    ELSE Member(keys[k], obj[keys[k]]) \o Members(obj, keys, k + 1)

\* json.dump(obj, f, indent=2) of an object with the given keys, in order:
\* the text of the file token by token, a string character by character
Encode(obj, keys) == << [t |-> "{"] >> \o Members(obj, keys, 1) \o << [t |-> "}"] >>

NotJson == [ok |-> FALSE, members |-> <<>>]

\* the offset of the first token from pos on that is not a character
RECURSIVE EndOfChars(_, _)
EndOfChars(content, pos) ==
    IF pos > Len(content) THEN pos
    ELSE IF content[pos].t = "char" THEN EndOfChars(content, pos + 1)
    ELSE pos

RECURSIVE ParseMembers(_, _, _)
\* json.load from the token at pos on, the members read so far in acc: the
\* object must close with the last token of the file
ParseMembers(content, pos, acc) ==
    IF pos > Len(content) THEN NotJson
    ELSE IF content[pos].t = "}"
    THEN IF pos = Len(content) THEN [ok |-> TRUE, members |-> acc] ELSE NotJson
    ELSE IF content[pos].t # "key" \/ pos + 1 > Len(content) THEN NotJson
    ELSE IF content[pos + 1].t = "value"
    THEN ParseMembers(content, pos + 2,
                      Append(acc, <<content[pos].key, content[pos + 1].val>>))
    ELSE IF content[pos + 1].t = "quote"
    THEN LET close == EndOfChars(content, pos + 2)
         IN  IF close <= Len(content) /\ content[close].t = "quote"
             THEN ParseMembers(content, close + 1,
                      Append(acc, <<content[pos].key,
                                    [k \in 1..(close - pos - 2) |-> content[pos + 1 + k].c]>>))
             ELSE NotJson
    ELSE NotJson

Parse(content) ==
    IF Len(content) >= 2 /\ content[1].t = "{" THEN ParseMembers(content, 2, <<>>)
    ELSE NotJson

\* json.load(f) of a file holding content: the object, or a decode error
Decodable(content) == Parse(content).ok

\* a key written twice keeps its last value
Decode(content) ==
    LET members == Parse(content).members
        keys    == { members[k][1] : k \in 1..Len(members) }
    IN  [key \in keys |->
            members[Max({ k \in 1..Len(members) : members[k][1] = key })][2]]

\* a sample file cut short: what an interrupted write leaves
Truncated == << [t |-> "{"] >>

\* the content of an image file
Jpeg == << [t |-> "jpeg"] >>

DirExists(fs, dir) == dir \in DOMAIN fs

RECURSIVE Ascending(_)
Ascending(S) ==
    IF S = {} THEN <<>>
    ELSE LET m == CHOOSE x \in S : \A y \in S : x[1] <= y[1]
         IN  <<m>> \o Ascending(S \ {m})

Reverse(q) == [k \in 1..Len(q) |-> q[Len(q) + 1 - k]]

\* os.listdir(dir) filtered by endswith('.json').  The order of os.listdir
\* is not specified: the listing is taken in ascending or descending order.
ListJson(fs, dir, order) ==
    LET names == { n \in DOMAIN fs[dir] : EndsWithJson(n) }
    IN  IF order = "ascending" THEN Ascending(names) ELSE Reverse(Ascending(names))

ListingOrders == {"ascending", "descending"}

\* learn.py load_training_samples: a file that does not decode is skipped
\* with a warning, the others are loaded
RECURSIVE LoadSkipping(_, _, _)
LoadSkipping(fs, dir, names) ==
    IF names = <<>> THEN <<>>
    ELSE (IF Decodable(fs[dir][Head(names)])
          THEN << Decode(fs[dir][Head(names)]) >> ELSE <<>>)
         \o LoadSkipping(fs, dir, Tail(names))

load_training_samples(fs, order) ==
    IF ~DirExists(fs, TRAINING_DATA_DIR) THEN <<>>
    ELSE LoadSkipping(fs, TRAINING_DATA_DIR, ListJson(fs, TRAINING_DATA_DIR, order))

(* ----------------------------------------------------------------------- *)
(* learn.py: one run of the learning tool                                  *)
(* ----------------------------------------------------------------------- *)

\* "if len(samples) < 5" (learn.py:181, pp6.py:201)
MinSamples == 5

NoFile == [exists |-> FALSE, decodable |-> FALSE, value |-> EmptyRules]

\* a file holding json.dump(value)
JsonFile(value) == [exists |-> TRUE, decodable |-> TRUE, value |-> value]

\* what the user does at "Continue anyway? [y/n]": answers, closes the
\* input (EOFError) or interrupts (KeyboardInterrupt)
PromptInputs == {"y", "n", "eof", "interrupt"}

\* main() of learn.py followed by the "__main__" handlers, given the
\* samples load_training_samples returned and word_changes of them: the
\* outcome and the process exit code.  canWrite is whether
\* learned_corrections.json can be opened for writing.
LearnPyMain(samples, word_changes, choice, canWrite) ==
    IF Len(samples) = 0
    THEN [outcome |-> "no_samples", exit |-> 0]
    ELSE IF Len(samples) < MinSamples /\ choice = "eof"
    THEN [outcome |-> "crashed", exit |-> 1]
    ELSE IF Len(samples) < MinSamples /\ choice = "interrupt"
    THEN [outcome |-> "interrupted", exit |-> 0]
    ELSE IF Len(samples) < MinSamples /\ choice # "y"
    THEN [outcome |-> "declined", exit |-> 0]
    ELSE IF word_changes = <<>>
    THEN [outcome |-> "no_corrections", exit |-> 0]
    ELSE IF canWrite
    THEN [outcome |-> "saved", exit |-> 0]
    ELSE [outcome |-> "save_failed", exit |-> 0]

\* save_corrections: json.dump into learned_corrections.json, or False
save_corrections(file, learned, canWrite) ==
    IF canWrite THEN JsonFile(learned) ELSE file

\* one run of the tool, from load_training_samples to the process exit
LearnPy ==
    \E order \in ListingOrders :
      \E samples \in {load_training_samples(files, order)} :
        \E word_changes \in {analyze_corrections(samples)} :
          \E learned \in {create_learned_corrections(word_changes, samples)} :
            \E choice \in PromptInputs, canWrite \in BOOLEAN :
              \E run \in {LearnPyMain(samples, word_changes, choice, canWrite)} :
                \E created \in {run.outcome \in {"saved", "save_failed"}} :
                    /\ rulesFile' = IF created
                                    THEN save_corrections(rulesFile, learned, canWrite)
                                    ELSE rulesFile
                    /\ lastPass' = [tool |-> "learn.py", outcome |-> run.outcome,
                                    exit |-> run.exit, samples |-> samples,
                                    observed |-> word_changes,
                                    before |-> EmptyRules,
                                    rules |-> IF created THEN learned ELSE EmptyRules,
                                    persisted |-> run.outcome = "saved",
                                    uiSaved |-> ui.saved]
                    /\ UNCHANGED <<files, learned_corrections, applied, deviceVars, ui, stepVars>>

(* ----------------------------------------------------------------------- *)
(* pp6.py: loading the rule set, and the in-process learner                *)
(* ----------------------------------------------------------------------- *)

\* load_learned_corrections: the global is replaced by whatever the file
\* decodes to; a missing or undecodable file leaves it as it was
load_learned_corrections(file, current) ==
    IF file.exists /\ file.decodable THEN file.value ELSE current

\* the start of the device program: the rule set is loaded, then
\* initialize_spellcheck builds the checker if the package is there, then
\* the status announcement reads learned_corrections['word_replacements']
\* (pp6.py:608) under no handler but the one for KeyboardInterrupt
Pp6Start ==
    /\ learned_corrections' = load_learned_corrections(rulesFile, EmptyRules)
    /\ spell' = SPELLCHECK_AVAILABLE
    /\ crashed' = ("word_replacements" \notin DOMAIN learned_corrections')
    /\ UNCHANGED <<files, rulesFile, lastPass, applied, SPELLCHECK_AVAILABLE,
                   textFile, lastClean, now, captures, ui, stepVars>>

\* the loop of learn_from_corrections over the directory raises on the
\* first file that does not decode
AllDecodable(fs, dir) ==
    \A n \in DOMAIN fs[dir] : EndsWithJson(n) => Decodable(fs[dir][n])

HasSampleKeys(sample) ==
    "ocr_text" \in DOMAIN sample /\ "corrected_text" \in DOMAIN sample

\* whether line 241 would store at least one replacement
StoresSomething(word_changes) ==
    \E k \in 1..Len(word_changes) :
        Kept(CountOf(word_changes, word_changes[k][1],
                     MostCommonFix(word_changes, word_changes[k][1])))

\* learn_from_corrections: the outcome, the rule set in memory afterwards
\* and whether save_learned_corrections was reached.  A rule set in memory
\* without "word_replacements" raises KeyError at line 241 when a replacement
\* is to be stored, and otherwise at line 274, after the save.
learn_from_corrections(fs, current, order) ==
    LET dir          == TRAINING_DATA_DIR
        samples      == LoadSkipping(fs, dir, ListJson(fs, dir, order))
        word_changes == analyze_corrections(samples)
        stored       == StoreReplacements(current["word_replacements"], word_changes,
                                          WrongsInOrder(word_changes, {}))
        updated      == [key \in DOMAIN current \cup {"pattern_fixes"} |->
                            IF key = "pattern_fixes" THEN PatternFixesPp6(samples)
                            ELSE IF key = "word_replacements" THEN stored
                            ELSE current[key]]
    IN  IF ~DirExists(fs, dir)
        THEN [outcome |-> "no_dir", samples |-> <<>>, memory |-> current, save |-> FALSE]
        ELSE IF ~AllDecodable(fs, dir)
        THEN [outcome |-> "failed", samples |-> <<>>, memory |-> current, save |-> FALSE]
        ELSE IF Len(samples) < MinSamples
        THEN [outcome |-> "too_few", samples |-> samples, memory |-> current, save |-> FALSE]
        ELSE IF \E k \in 1..Len(samples) : ~HasSampleKeys(samples[k])
        THEN [outcome |-> "failed", samples |-> samples, memory |-> current, save |-> FALSE]
        ELSE IF "word_replacements" \in DOMAIN current
        THEN [outcome |-> "learned", samples |-> samples, memory |-> updated, save |-> TRUE]
        ELSE IF StoresSomething(word_changes)
        THEN [outcome |-> "failed", samples |-> samples, memory |-> current, save |-> FALSE]
        ELSE [outcome |-> "failed", samples |-> samples, memory |-> updated, save |-> TRUE]

\* save_learned_corrections: json.dump of the global; a failure is logged
save_learned_corrections(file, current, canWrite) ==
    IF canWrite THEN JsonFile(current) ELSE file

\* one call of learn_from_corrections in the running device program
Pp6Learn ==
    \E order \in ListingOrders :
      \E run \in {learn_from_corrections(files, learned_corrections, order)} :
        \E observed \in {analyze_corrections(run.samples)} :
          \E canWrite \in BOOLEAN :
                /\ learned_corrections' = run.memory
                /\ rulesFile' = IF run.save
                                THEN save_learned_corrections(rulesFile, run.memory, canWrite)
                                ELSE rulesFile
                /\ lastPass' = [tool |-> "pp6", outcome |-> run.outcome,
                                exit |-> 0, samples |-> run.samples,
                                observed |-> observed,
                                before |-> learned_corrections, rules |-> run.memory,
                                persisted |-> run.save /\ canWrite,
                                uiSaved |-> ui.saved]
                /\ UNCHANGED <<files, applied, deviceVars, ui, stepVars>>

(* ----------------------------------------------------------------------- *)
(* The learning passes over a stored corpus                                *)
(* ----------------------------------------------------------------------- *)

\* the clock when the model starts
StartTime == 3

\* nothing applied, and the device program not started
NoApply == [texts |-> <<>>, raised |-> FALSE]
NoClean == [ran |-> FALSE, input |-> <<>>, rules |-> EmptyRules, wrote |-> FALSE]

\* train.py not started; no save and no load under way
NoUi     == [phase |-> "off", samples |-> <<>>, i |-> 0, saved |-> <<>>,
             answered |-> "none"]
NoWriter == [phase |-> "idle", dir |-> "", name |-> <<>>, old |-> <<>>, data |-> <<>>,
             written |-> 0]
NoReader == [phase |-> "idle", dir |-> "", name |-> <<>>, size |-> 0, buffer |-> <<>>]

ToolsIdle ==
    /\ ui = NoUi
    /\ writer = NoWriter
    /\ reader = NoReader

DeviceOff ==
    /\ SPELLCHECK_AVAILABLE = FALSE
    /\ spell = FALSE
    /\ textFile = <<>>
    /\ lastClean = NoClean
    /\ now = StartTime
    /\ captures = 0
    /\ crashed = FALSE

NoPass ==
    [tool |-> "none", outcome |-> "none", exit |-> 0, samples |-> <<>>,
     observed |-> <<>>, before |-> EmptyRules, rules |-> EmptyRules, persisted |-> FALSE,
     uiSaved |-> <<>>]

\* the record save_training_sample builds; a correction replaces corrected_text
SampleRecord(ts, ocr_text, corrected_text) ==
    [id |-> ts, timestamp |-> ts, ocr_text |-> ocr_text,
     corrected_text |-> corrected_text, image_path |-> ts]

Teh     == <<"t", "e", "h">>
The     == <<"t", "h", "e">>
Ten     == <<"t", "e", "n">>
TehA    == <<"t", "e", "h", " ", "a">>
TheA    == <<"t", "h", "e", " ", "a">>
TenA    == <<"t", "e", "n", " ", "a">>
TehTeh  == <<"t", "e", "h", " ", "t", "e", "h">>
TheThe  == <<"t", "h", "e", "\n", "t", "h", "e">>

\* the samples of the word-level corpora: left as captured, corrected one
\* way, corrected another way, corrected twice in one text
WordKinds ==
    { [ocr |-> TehA, corrected |-> TehA],
      [ocr |-> TehA, corrected |-> TheA],
      [ocr |-> TehA, corrected |-> TenA] }

\* the kinds drawn for a corpus too small for pp6.py
SmallKinds ==
    { [ocr |-> TehA, corrected |-> TehA],
      [ocr |-> TehTeh, corrected |-> TheThe] }

\* a training directory holding sample_1 .. sample_n of the given kinds and,
\* with cut, one more sample file that an interrupted write left truncated
CorpusDir(kinds, cut) ==
    LET n == Len(kinds)
    IN  [name \in { JsonName(k) : k \in 1..n } \cup { JpgName(k) : k \in 1..n }
                  \cup (IF cut THEN {JsonName(n + 1)} ELSE {}) |->
            IF name[2] = "jpg" THEN Jpeg
            ELSE IF name[1] = n + 1 THEN Truncated
            ELSE Encode(SampleRecord(name[1], kinds[name[1]].ocr,
                                     kinds[name[1]].corrected), SampleKeys)]

Disk(dirs, content) == [d \in dirs |-> content]

\* rule sets an earlier run may have left in learned_corrections.json
StaleRules ==
    [word_replacements |-> << <<Teh, Ten>>, <<Ten, The>> >>,
     pattern_fixes |-> <<PatternO>>, context_corrections |-> <<>>]

InitialRuleFiles == {NoFile, JsonFile(StaleRules)}

CorpusSizes == {0, MinSamples - 1, MinSamples}

InitLearn ==
    /\ \/ files = Disk({}, <<>>)
       \/ \E n \in CorpusSizes, cut \in BOOLEAN :
              \E kinds \in [1..n -> IF n < MinSamples THEN SmallKinds ELSE WordKinds] :
                  files = Disk({TRAINING_DATA_DIR}, CorpusDir(kinds, cut))
    /\ rulesFile \in InitialRuleFiles
    /\ learned_corrections = EmptyRules
    /\ lastPass = NoPass
    /\ applied = NoApply
    /\ DeviceOff
    /\ ToolsIdle

NextLearn == LearnPy \/ Pp6Start \/ Pp6Learn

SpecLearn == InitLearn /\ [][NextLearn]_vars

(* ----------------------------------------------------------------------- *)
(* Properties of the learning passes                                       *)
(* ----------------------------------------------------------------------- *)

\* the pass ran to the point where its rule set exists
PassCompleted == lastPass.outcome \in {"saved", "save_failed", "learned"}

ObservedPairs == { lastPass.observed[k] : k \in 1..Len(lastPass.observed) }

Times(p) == CountOf(lastPass.observed, p[1], p[2])

InDict(d, p) == \E k \in 1..Len(d) : d[k] = p

\* C1 as claimed: after a learning pass, a pair observed exactly once is not
\* in word_replacements and a pair observed exactly twice is.
C1_ThresholdAsClaimed ==
    PassCompleted =>
        \A p \in ObservedPairs :
            /\ Times(p) = 1 => ~InDict(lastPass.rules["word_replacements"], p)
            /\ Times(p) = 2 => InDict(lastPass.rules["word_replacements"], p)

\* C2 as claimed: after a pass that persisted its rule set, every key of the
\* persisted word_replacements maps to a right word with the highest count for
\* that key in the corpus of that pass, and that count is at least 2.
C2_RuleSetInvariant ==
    lastPass.persisted =>
        \A k \in 1..Len(rulesFile.value["word_replacements"]) :
            LET p == rulesFile.value["word_replacements"][k]
            IN  /\ p \in ObservedPairs
                /\ Times(p) >= 2
                /\ \A q \in ObservedPairs : q[1] = p[1] => Times(q) <= Times(p)

\* C6 as claimed: when persisting the rule set fails, the exit code of the
\* learning tool is not the exit code of a successful run (0).
C6_WriteFailureExitCode ==
    (lastPass.tool = "learn.py" /\ lastPass.outcome = "save_failed")
        => lastPass.exit # 0

\* the well-formed sample records of the learner's directory
WellFormedSamples ==
    IF ~DirExists(files, TRAINING_DATA_DIR) THEN {}
    ELSE { Decode(files[TRAINING_DATA_DIR][n]) :
             n \in { m \in DOMAIN files[TRAINING_DATA_DIR] :
                       EndsWithJson(m) /\ Decodable(files[TRAINING_DATA_DIR][m]) } }

HasMalformedSample ==
    /\ DirExists(files, TRAINING_DATA_DIR)
    /\ ~AllDecodable(files, TRAINING_DATA_DIR)

\* C9 as claimed: a learning pass over a directory holding a record that does
\* not decode does not fail, and loads every well-formed sample.
C9_MalformedSkipped ==
    (lastPass.tool # "none" /\ HasMalformedSample) =>
        /\ lastPass.outcome # "failed"
        /\ { lastPass.samples[k] : k \in 1..Len(lastPass.samples) } = WellFormedSamples

(* ----------------------------------------------------------------------- *)
(* The learning passes over corpora with character confusions              *)
(* ----------------------------------------------------------------------- *)

Plain       == [ocr |-> <<"a">>, corrected |-> <<"a">>]
WithQQ      == [ocr |-> <<"1", ".", "q", "q">>, corrected |-> <<"1", ".", "9", "9">>]
WithDollarO == [ocr |-> <<"$", "O">>, corrected |-> <<"$", "0">>]
WithL       == [ocr |-> <<"1", "l", "1">>, corrected |-> <<"1", "1", "1">>]
WithI       == [ocr |-> <<"2", "I", "2">>, corrected |-> <<"2", "1", "2">>]
WithLAtEnd  == [ocr |-> <<"a", " ", "3", "l">>, corrected |-> <<"a", " ", "3", "1">>]
WithO       == [ocr |-> <<"4", "O", "4">>, corrected |-> <<"4", "0", "4">>]
WithAll     == [ocr |-> <<"1", ".", "q", "q", " ", "$", "o", " ", "5", "l", "5", " ", "6", "O", "6">>,
                corrected |-> <<"1", ".", "9", "9", " ", "$", "0", " ", "5", "1", "5", " ", "6", "0", "6">>]

PatternKinds ==
    {Plain, WithQQ, WithDollarO, WithL, WithI, WithLAtEnd, WithO, WithAll}

\* corpora of MinSamples samples: plain ones and two drawn from PatternKinds
PatternCorpora ==
    { [k \in 1..MinSamples |-> IF k = 1 THEN a ELSE IF k = 2 THEN b ELSE Plain] :
        a \in PatternKinds, b \in PatternKinds }

InitPattern ==
    /\ \E kinds \in PatternCorpora :
           files = Disk({TRAINING_DATA_DIR}, CorpusDir(kinds, FALSE))
    /\ rulesFile \in InitialRuleFiles
    /\ learned_corrections = EmptyRules
    /\ lastPass = NoPass
    /\ applied = NoApply
    /\ DeviceOff
    /\ ToolsIdle

SpecPattern == InitPattern /\ [][NextLearn]_vars

\* the evidence the hypothesis table asks of one sample
EvidenceQQ(s) ==
    Contains(s["ocr_text"], <<"q", "q">>) /\ Contains(s["corrected_text"], <<"9", "9">>)

EvidenceDollarO(s) ==
    Contains(s["ocr_text"], <<"$", "O">>) \/ Contains(s["ocr_text"], <<"$", "o">>)

EvidenceLI(s) ==
    /\ \E i \in 1..(Len(s["ocr_text"]) - 2) :
           /\ IsDigit(s["ocr_text"][i])
           /\ s["ocr_text"][i + 1] \in {"l", "I"}
           /\ IsDigit(s["ocr_text"][i + 2])
    /\ \E i \in 1..(Len(s["corrected_text"]) - 2) :
           /\ IsDigit(s["corrected_text"][i])
           /\ s["corrected_text"][i + 1] = "1"
           /\ IsDigit(s["corrected_text"][i + 2])

EvidenceO(s) ==
    /\ \E i \in 1..(Len(s["ocr_text"]) - 2) :
           /\ IsDigit(s["ocr_text"][i])
           /\ s["ocr_text"][i + 1] = "O"
           /\ IsDigit(s["ocr_text"][i + 2])
    /\ \E i \in 1..(Len(s["corrected_text"]) - 2) :
           /\ IsDigit(s["corrected_text"][i])
           /\ s["corrected_text"][i + 1] = "0"
           /\ IsDigit(s["corrected_text"][i + 2])

SomeSampleHas(E(_)) ==
    \E k \in 1..Len(lastPass.samples) : E(lastPass.samples[k])

\* C5 as claimed: after a learning pass, pattern_fixes holds, in table order,
\* exactly the rules of the hypotheses with evidence in some sample.
C5_HypothesisGating ==
    PassCompleted =>
        lastPass.rules["pattern_fixes"] =
            (IF SomeSampleHas(EvidenceQQ) THEN <<PatternQQ>> ELSE <<>>)
            \o (IF SomeSampleHas(EvidenceDollarO) THEN <<PatternDollarO>> ELSE <<>>)
            \o (IF SomeSampleHas(EvidenceLI) THEN <<PatternLI>> ELSE <<>>)
            \o (IF SomeSampleHas(EvidenceO) THEN <<PatternO>> ELSE <<>>)

(* ----------------------------------------------------------------------- *)
(* The learning passes over corpora with one sample edited word by word    *)
(* ----------------------------------------------------------------------- *)

MaxWords == 3

\* the words of the edited sample
Words == { <<"a">>, <<"$", "O">> }

\* the texts of up to n words, single spaces between them
RECURSIVE TextsOf(_)
TextsOf(n) ==
    IF n = 0 THEN { <<>> }
    ELSE TextsOf(n - 1)
         \cup { IF t = <<>> THEN w ELSE t \o <<" ">> \o w :
                  t \in TextsOf(n - 1), w \in Words }

Unchanged == [ocr |-> <<"z">>, corrected |-> <<"z">>]

\* corpora of MinSamples samples: one with any two texts, the others unchanged
ExtractCorpora ==
    { [k \in 1..MinSamples |->
          IF k = 1 THEN [ocr |-> o, corrected |-> c] ELSE Unchanged] :
        o \in TextsOf(MaxWords), c \in TextsOf(MaxWords) }

InitExtract ==
    /\ \E kinds \in ExtractCorpora :
           files = Disk({TRAINING_DATA_DIR}, CorpusDir(kinds, FALSE))
    /\ rulesFile = NoFile
    /\ learned_corrections = EmptyRules
    /\ lastPass = NoPass
    /\ applied = NoApply
    /\ DeviceOff
    /\ ToolsIdle

SpecExtract == InitExtract /\ [][NextLearn]_vars

\* the pass went through its analysis of the samples
PassAnalysed ==
    lastPass.outcome \in {"saved", "save_failed", "learned", "no_corrections"}

Edited(s) == s["ocr_text"] # s["corrected_text"]

EditedSamples == SelectSeq(lastPass.samples, Edited)

WordsOf(text) == { Split(text)[k] : k \in 1..Len(Split(text)) }

\* C13: after a learning pass every observation in the frequency table pairs
\* a word of the OCR text of an edited sample with a word of its corrected
\* text: a sample with ocr_text == corrected_text contributes none.
C13_UnchangedSample ==
    PassAnalysed =>
        \A p \in ObservedPairs :
            \E k \in 1..Len(EditedSamples) :
                /\ p[1] \in WordsOf(EditedSamples[k]["ocr_text"])
                /\ p[2] \in WordsOf(EditedSamples[k]["corrected_text"])

\* C13 witness: a pass over four unchanged samples and an edited one that
\* made an observation
C13_Witness ==
    /\ PassAnalysed
    /\ Len(lastPass.samples) - Len(EditedSamples) = MinSamples - 1
    /\ lastPass.observed # <<>>

\* the positions at which the two token sequences of a sample differ, when
\* they are equally long
Substituted(s) ==
    LET ocr_words     == Split(s["ocr_text"])
        correct_words == Split(s["corrected_text"])
    IN  IF Len(ocr_words) # Len(correct_words) THEN {}
        ELSE { i \in 1..Len(ocr_words) : ocr_words[i] # correct_words[i] }

\* C14 as claimed: a pass whose only edited sample differs from its OCR text
\* in exactly one token observes exactly that (wrong, right) pair, once.
C14_SingleSubstitution ==
    (/\ PassAnalysed
     /\ Len(EditedSamples) = 1
     /\ Cardinality(Substituted(EditedSamples[1])) = 1)
        => LET s == EditedSamples[1]
               i == CHOOSE i \in Substituted(s) : TRUE
           IN  lastPass.observed
                   = << <<Split(s["ocr_text"])[i], Split(s["corrected_text"])[i]>> >>

\* C16 as claimed: learn.py takes the "no corrections found" exit only when
\* no sample is edited; with an edited sample it goes on to save a rule set
\* whose pattern_fixes are the hypotheses with evidence in the corpus.
C16_NoCorrectionsExit ==
    lastPass.tool = "learn.py" =>
        /\ lastPass.outcome = "no_corrections" => EditedSamples = <<>>
        /\ EditedSamples # <<>> =>
               /\ lastPass.outcome \in {"saved", "save_failed"}
               /\ lastPass.rules["pattern_fixes"] =
                      (IF SomeSampleHas(EvidenceQQ) THEN <<PatternQQ>> ELSE <<>>)
                      \o (IF SomeSampleHas(EvidenceDollarO)
                          THEN <<PatternDollarO>> ELSE <<>>)
                      \o (IF SomeSampleHas(EvidenceLI) THEN <<PatternLI>> ELSE <<>>)
                      \o (IF SomeSampleHas(EvidenceO) THEN <<PatternO>> ELSE <<>>)

\* how many pairs a region of the alignment is to give: a replace region of
\* m OCR tokens and n corrected tokens min(m, n), any other region none
PairsDue(op) ==
    IF op.tag # "replace" THEN 0
    ELSE IF op.i2 - op.i1 < op.j2 - op.j1 THEN op.i2 - op.i1 ELSE op.j2 - op.j1

RECURSIVE PairsDueBefore(_, _)
PairsDueBefore(ops, r) ==
    IF r <= 1 THEN 0 ELSE PairsDueBefore(ops, r - 1) + PairsDue(ops[r - 1])

\* C17: the observations of a pass with one edited sample are, region by
\* region of the alignment of its token sequences, the k-th OCR token of a
\* replace region paired with the k-th corrected token of that region, for
\* k up to min(m, n); insert, delete and equal regions give none.
C17_ReplaceRegionsOnly ==
    (PassAnalysed /\ Len(EditedSamples) = 1) =>
        LET ocr_words     == Split(EditedSamples[1]["ocr_text"])
            correct_words == Split(EditedSamples[1]["corrected_text"])
            ops           == GetOpcodes(ocr_words, correct_words)
        IN  /\ Len(lastPass.observed) = PairsDueBefore(ops, Len(ops) + 1)
            /\ \A r \in 1..Len(ops) : \A k \in 1..PairsDue(ops[r]) :
                   lastPass.observed[PairsDueBefore(ops, r) + k]
                       = <<ocr_words[ops[r].i1 + k], correct_words[ops[r].j1 + k]>>

\* C17 witness: a pass over a sample whose alignment has a replace region of
\* two OCR tokens and one corrected token, which gave one observation
C17_Witness ==
    /\ PassAnalysed
    /\ Len(EditedSamples) = 1
    /\ Len(lastPass.observed) = 1
    /\ \E op \in { GetOpcodes(Split(EditedSamples[1]["ocr_text"]),
                              Split(EditedSamples[1]["corrected_text"]))[1] } :
           op.tag = "replace" /\ op.i2 - op.i1 = 2 /\ op.j2 - op.j1 = 1

(* ----------------------------------------------------------------------- *)
(* The Correction Applicator applied to a text, and to its own result      *)
(* ----------------------------------------------------------------------- *)

MaxApplications == 2
MaxShort        == 3

Catalogue == <<PatternQQ, PatternDollarO, PatternLI, PatternO>>

CatalogueSubsets ==
    { SelectSeq(Catalogue, LAMBDA fix : fix \in chosen) :
        chosen \in SUBSET { Catalogue[k] : k \in 1..Len(Catalogue) } }

\* entries a hand-edited learned_corrections.json can hold
BadEntry ==
    [pattern |-> BadPattern, replacement |-> "$0", description |-> "edited by hand"]
BadTemplateEntry ==
    [pattern |-> "(\\d)[lI](\\d)", replacement |-> BadTemplate,
     description |-> "edited by hand"]

Cat      == <<"c", "a", "t">>
Dog      == <<"d", "o", "g">>
CatComma == <<"c", "a", "t", ",">>
Dollar5  == <<"$", "5">>
Five     == <<"f", "i", "v", "e">>

WordRuleSets ==
    { <<>>,
      << <<Teh, The>> >>,
      << <<Cat, Dog>> >>,
      << <<CatComma, Cat>> >>,
      << <<Dollar5, Five>> >> }

ApplyRuleSets ==
    { [word_replacements |-> w, pattern_fixes |-> pf, context_corrections |-> <<>>] :
        w \in WordRuleSets,
        pf \in CatalogueSubsets
               \cup {<<BadEntry>>, <<BadEntry, PatternLI>>, <<PatternLI, BadTemplateEntry>>} }

ApplyTexts ==
    UNION { [1..k -> {"1", "l", "O", " "}] : k \in 1..MaxShort }
    \cup { <<"1", "l", "1", "l", "1">>,
           <<"2", "O", "2", "o", "2">>,
           <<"7", ".", "q", "q", " ", "$", "O">>,
           <<"t", "e", "h", " ", "1", "l", "1">>,
           <<"T", "e", "h", " ", "t", "e", "h", ".">>,
           <<"c", "a", "t", " ", "c", "o", "n", "c", "a", "t", " ", "c", "a", "t", ".">>,
           <<"c", "a", "t", ",", " ", "a">>,
           <<"a", " ", "c", "a", "t", ",">>,
           <<"$", "5">>,
           <<"a", " ", "$", "5", " ", "b">>,
           <<"a", "$", "5", "5">> }

InitApply ==
    /\ files = Disk({}, <<>>)
    /\ \E rules \in ApplyRuleSets :
           /\ rulesFile = JsonFile(rules)
           /\ learned_corrections = rules
    /\ lastPass = NoPass
    /\ \E t \in ApplyTexts : applied = [texts |-> <<t>>, raised |-> FALSE]
    /\ DeviceOff
    /\ ToolsIdle

\* apply_learned_corrections called on the result of the call before
ApplyCorrections ==
    /\ applied.texts # <<>>
    /\ ~applied.raised
    /\ Len(applied.texts) <= MaxApplications
    /\ \E r \in {apply_learned_corrections(applied.texts[Len(applied.texts)],
                                           learned_corrections)} :
           applied' = [texts  |-> IF r.raised THEN applied.texts
                                  ELSE Append(applied.texts, r.text),
                       raised |-> r.raised]
    /\ UNCHANGED <<files, rulesFile, learned_corrections, lastPass, deviceVars, ui, stepVars>>

NextApply == ApplyCorrections

SpecApply == InitApply /\ [][NextApply]_vars

\* no wrong word of the rule set occurs in a replacement of the rule set
NoOverlap(rules) ==
    \A j, k \in 1..Len(rules["word_replacements"]) :
        ~Contains(rules["word_replacements"][k][2], rules["word_replacements"][j][1])

\* C3 as claimed: for a rule set of word replacements that do not overlap
\* their replacements and any part of the catalogue, applying the
\* Applicator to its own result changes nothing.
C3_Idempotence ==
    (Len(applied.texts) >= 3 /\ NoOverlap(learned_corrections))
        => applied.texts[3] = applied.texts[2]

Tokens(text) == { Split(text)[k] : k \in 1..Len(Split(text)) }

\* C8 as claimed: a learned wrong word that stands in the input as a
\* whitespace-delimited token, punctuation and currency symbols included,
\* is replaced: with that one rule the token is gone from the result.
C8_WholeWordReplaced ==
    (/\ Len(applied.texts) >= 2
     /\ learned_corrections["pattern_fixes"] = <<>>
     /\ Len(learned_corrections["word_replacements"]) = 1)
        => LET wrong == learned_corrections["word_replacements"][1][1]
               right == learned_corrections["word_replacements"][1][2]
           IN  (wrong \in Tokens(applied.texts[1]) /\ wrong \notin Tokens(right))
                   => wrong \notin Tokens(applied.texts[2])

(* ----------------------------------------------------------------------- *)
(* The device program: a capture is OCR, a training sample, cleanText      *)
(* ----------------------------------------------------------------------- *)

MaxTime == 4

\* how many captures a run of the model follows
MaxCaptures == 3

\* os.makedirs(dir, exist_ok=True)
MakeDirs(fs, dir) == IF DirExists(fs, dir) THEN fs ELSE (dir :> <<>>) @@ fs

\* open(path, 'w') followed by a complete write
WriteFile(fs, dir, name, content) ==
    [fs EXCEPT ![dir] = (name :> content) @@ fs[dir]]

\* save_training_sample: the image copied and the record written under the
\* name the clock gives
save_training_sample(fs, timestamp, ocr_text) ==
    WriteFile(WriteFile(MakeDirs(fs, TRAINING_DATA_DIR),
                        TRAINING_DATA_DIR, JpgName(timestamp), Jpeg),
              TRAINING_DATA_DIR, JsonName(timestamp),
              Encode(SampleRecord(timestamp, ocr_text, ocr_text), SampleKeys))

\* what the OCR engine may read off an image
OcrTexts ==
    { <<"a">>,
      <<"$", "O">>,
      <<"3", " ", ":", " ", "4">>,
      <<"t", "e", "h", " ", " ", "c", "a", "t">>,
      <<"t", "e", "h", " ", "1", "l", "1">>,
      <<"T", "o", "t", "a", "l", " ", "$", " ", "1", "2", ".", "q", "q", " ", "&", " ",
        "5", "O", "%", " ", "o", "f", "f">> }

\* getData with TRAINING_MODE = True: the OCR engine writes /tmp/text.txt,
\* the sample is saved, cleanText rewrites the text.  time.time() is the
\* wall clock: it may read the second of the capture before (the clock set
\* back, or two captures within a second), which is elapsed = 0.
getData ==
    \E ocr_text \in OcrTexts, elapsed \in {0, 1} :
        /\ now + elapsed <= MaxTime
        /\ captures < MaxCaptures
        /\ ~crashed
        /\ now' = now + elapsed
        /\ captures' = captures + 1
        /\ files' = save_training_sample(files, now', ocr_text)
        /\ \E r \in {cleanText(ocr_text, learned_corrections, spell)} :
               /\ textFile' = r.text
               /\ lastClean' = [ran |-> TRUE, input |-> ocr_text,
                                rules |-> learned_corrections, wrote |-> r.wrote]
        /\ UNCHANGED <<rulesFile, learned_corrections, lastPass, applied,
                       SPELLCHECK_AVAILABLE, spell, crashed, ui, stepVars>>

LearnedRules ==
    [word_replacements |-> << <<Teh, The>> >>, pattern_fixes |-> <<PatternLI>>,
     context_corrections |-> <<>>]

\* the rule set learn.py writes from a corpus with the evidence of the qq
\* and of the O-between-digits hypotheses (learn.py:108-109, 138-139)
PriceRules ==
    [word_replacements |-> <<>>, pattern_fixes |-> <<PatternQQ, PatternO>>,
     context_corrections |-> <<>>]

\* rule sets that lack a key: decodable JSON an editor or another tool left
WordsOnlyRules == [word_replacements |-> << <<Teh, The>> >>]
FixesOnlyRules == [pattern_fixes |-> <<PatternLI>>]

\* rule files as the learner leaves them, and as an editor may
CleanRuleFiles ==
    { NoFile,
      JsonFile(WordsOnlyRules),
      JsonFile(FixesOnlyRules),
      JsonFile(LearnedRules),
      JsonFile(PriceRules),
      JsonFile([LearnedRules EXCEPT !["pattern_fixes"] = <<BadEntry, PatternLI>>]),
      JsonFile([LearnedRules EXCEPT !["pattern_fixes"] = <<PatternLI, BadTemplateEntry>>]) }

InitClean ==
    /\ files = Disk({}, <<>>)
    /\ rulesFile \in CleanRuleFiles
    /\ learned_corrections = EmptyRules
    /\ lastPass = NoPass
    /\ applied = NoApply
    /\ SPELLCHECK_AVAILABLE \in BOOLEAN
    /\ spell = FALSE
    /\ textFile = <<>>
    /\ lastClean = NoClean
    /\ now = StartTime
    /\ captures = 0
    /\ crashed = FALSE
    /\ ToolsIdle

NextClean == Pp6Start \/ getData

SpecClean == InitClean /\ [][NextClean]_vars

\* whether re.sub accepts the entry
ValidEntry(fix) == ~SubRaises(fix.pattern, fix.replacement)

WithoutInvalid(rules) ==
    [rules EXCEPT !["pattern_fixes"] = SelectSeq(rules["pattern_fixes"], ValidEntry)]

\* C4 as claimed: with an invalid entry in the loaded rule set cleanText
\* still writes its output, the text cleaned with every other rule.
C4_InvalidRuleSkipped ==
    (/\ lastClean.ran
     /\ "pattern_fixes" \in DOMAIN lastClean.rules
     /\ \E k \in 1..Len(lastClean.rules["pattern_fixes"]) :
            ~ValidEntry(lastClean.rules["pattern_fixes"][k]))
        => /\ lastClean.wrote
           /\ textFile = cleanText(lastClean.input, WithoutInvalid(lastClean.rules),
                                   spell).text

\* "Total $ 12.qq & 5O% off"
RawTotal ==
    <<"T", "o", "t", "a", "l", " ", "$", " ", "1", "2", ".", "q", "q", " ",
      "&", " ", "5", "O", "%", " ", "o", "f", "f">>

\* "Total 12.99 dollars and 50 percent off"
SpokenTotal ==
    <<"T", "o", "t", "a", "l", " ", "1", "2", ".", "9", "9", " ", "d", "o",
      "l", "l", "a", "r", "s", " ", "a", "n", "d", " ", "5", "0", " ", "p",
      "e", "r", "c", "e", "n", "t", " ", "o", "f", "f">>

\* C15 as claimed: cleanText, with the qq and O-between-digits rules loaded,
\* turns "Total $ 12.qq & 5O% off" into "Total 12.99 dollars and 50 percent off".
C15_NormalizationExample ==
    (lastClean.ran /\ lastClean.input = RawTotal /\ lastClean.rules = PriceRules)
        => textFile = SpokenTotal

\* C18 as claimed: whatever learned_corrections.json held when it was loaded,
\* the rule set in memory has the keys word_replacements and pattern_fixes,
\* and a cleanText call whose rule set holds no invalid entry gets a text
\* back from apply_learned_corrections and writes its output.
C18_RuleSetShape ==
    /\ {"word_replacements", "pattern_fixes"} \subseteq DOMAIN learned_corrections
    /\ (/\ lastClean.ran
        /\ \/ "pattern_fixes" \notin DOMAIN lastClean.rules
           \/ \A k \in 1..Len(lastClean.rules["pattern_fixes"]) :
                  ValidEntry(lastClean.rules["pattern_fixes"][k]))
           => lastClean.wrote

(* ----------------------------------------------------------------------- *)
(* train.py: the correction UI, prompt by prompt                           *)
(* ----------------------------------------------------------------------- *)

RECURSIVE InsertByTimestamp(_, _)
\* where sorted() puts x among rows already sorted: after every row whose
\* timestamp is not larger (the sort is stable)
InsertByTimestamp(rows, x) ==
    IF rows = <<>> THEN <<x>>
    ELSE IF x["timestamp"] < rows[Len(rows)]["timestamp"]
    THEN Append(InsertByTimestamp(SubSeq(rows, 1, Len(rows) - 1), x), rows[Len(rows)])
    ELSE Append(rows, x)

RECURSIVE SortedByTimestamp(_, _)
SortedByTimestamp(rows, k) ==
    IF k = 0 THEN <<>>
    ELSE InsertByTimestamp(SortedByTimestamp(rows, k - 1), rows[k])

\* load_samples: every .json file of TRAINING_DIR decoded, its path added,
\* the rows sorted by timestamp
load_samples(fs, order) ==
    LET names == ListJson(fs, TRAINING_DIR, order)
        rows  == [k \in 1..Len(names) |->
                     ("json_path" :> names[k]) @@ Decode(fs[TRAINING_DIR][names[k]])]
    IN  SortedByTimestamp(rows, Len(rows))

\* whether load_samples raises: a file that does not decode, a record
\* without a timestamp
LoadSamplesRaises(fs) ==
    \E n \in DOMAIN fs[TRAINING_DIR] :
        /\ EndsWithJson(n)
        /\ \/ ~Decodable(fs[TRAINING_DIR][n])
           \/ "timestamp" \notin DOMAIN Decode(fs[TRAINING_DIR][n])

\* the top of the loop body prints the id, the image path and the OCR text
\* of sample i, then prompts; the loop ends after the last sample
Show(samples, i) ==
    IF i > Len(samples) THEN "ended"
    ELSE IF {"id", "image_path", "ocr_text"} \subseteq DOMAIN samples[i] THEN "prompt"
    ELSE "ended"

\* main() of train.py up to its first prompt
TrainPyStart ==
    /\ ui.phase # "prompt"
    /\ \E order \in ListingOrders :
           IF ~DirExists(files, TRAINING_DIR) \/ LoadSamplesRaises(files)
           THEN ui' = [ui EXCEPT !.phase = "ended", !.samples = <<>>, !.i = 0,
                                 !.answered = "none"]
           ELSE \E samples \in {load_samples(files, order)} :
                    ui' = [ui EXCEPT !.phase = Show(samples, 1),
                                     !.samples = samples, !.i = 1,
                                     !.answered = "none"]
    /\ UNCHANGED <<files, rulesFile, learned_corrections, lastPass, applied,
                   deviceVars, stepVars>>

\* what the user may do at the prompt: a line, the end of input, an interrupt
UiInputs ==
    { [kind |-> "line", text |-> <<>>],
      [kind |-> "line", text |-> <<"q">>],
      [kind |-> "line", text |-> <<"S">>],
      [kind |-> "line", text |-> <<" ", "t", "h", "e", " ", "a">>],
      [kind |-> "eof", text |-> <<>>],
      [kind |-> "interrupt", text |-> <<>>] }

\* a save that stamps the record with the time of the correction
SaveRestamped(fs, sample) ==
    WriteFile(fs, TRAINING_DIR, sample["json_path"],
              Encode([sample EXCEPT !["timestamp"] = 0], SampleKeys))

\* save_sample: the five members written over the file the sample came from
save_sample(fs, sample) ==
    WriteFile(fs, TRAINING_DIR, sample["json_path"], Encode(sample, SampleKeys))

\* one prompt of the loop answered, down to the next prompt
TrainPyAnswer ==
    /\ ui.phase = "prompt"
    /\ \E input \in UiInputs :
         \E choice \in {Strip(input.text)} :
           \E sample \in {ui.samples[ui.i]} :
             IF input.kind # "line" \/ Lower(choice) = <<"q">>
             THEN /\ ui' = [ui EXCEPT !.phase = "ended",
                                      !.answered = IF input.kind = "line" THEN "quit"
                                                   ELSE input.kind]
                  /\ UNCHANGED files
             ELSE IF Lower(choice) = <<"s">>
             THEN /\ ui' = [ui EXCEPT !.phase = Show(ui.samples, ui.i + 1), !.i = ui.i + 1,
                                      !.answered = "skip"]
                  /\ UNCHANGED files
             ELSE \E corrected \in
                        {IF choice # <<>> THEN choice
                         ELSE IF "corrected_text" \in DOMAIN sample
                         THEN sample["corrected_text"]
                         ELSE sample["ocr_text"]} :
                    \E kept \in {("corrected_text" :> corrected) @@ sample} :
                      IF ~({"timestamp"} \subseteq DOMAIN sample)
                      THEN /\ ui' = [ui EXCEPT !.phase = "ended", !.answered = "crashed"]
                           /\ files' = WriteFile(files, TRAINING_DIR, sample["json_path"], <<>>)
                      ELSE /\ files' = save_sample(files, kept)
                           /\ ui' = [ui EXCEPT
                                         !.phase = Show(ui.samples, ui.i + 1),
                                         !.i = ui.i + 1,
                                         !.samples[ui.i] = kept,
                                         !.saved = (sample["id"] :> corrected) @@ ui.saved,
                                         !.answered = IF choice = <<>> THEN "enter"
                                                      ELSE "typed"]
    /\ UNCHANGED <<rulesFile, learned_corrections, lastPass, applied, deviceVars, stepVars>>

(* ----------------------------------------------------------------------- *)
(* Correction and learning over what the device captured                   *)
(* ----------------------------------------------------------------------- *)

\* two samples captured before the model starts
EarlierSamples ==
    CorpusDir(<<[ocr |-> TehA, corrected |-> TehA], [ocr |-> TehA, corrected |-> TehA]>>,
              FALSE)

\* the disk: each of the two directories is absent or holds those samples
StoreDisks ==
    { [d \in dirs |-> EarlierSamples] : dirs \in SUBSET {TRAINING_DATA_DIR, TRAINING_DIR} }

InitStore ==
    /\ files \in StoreDisks
    /\ rulesFile = NoFile
    /\ learned_corrections = EmptyRules
    /\ lastPass = NoPass
    /\ applied = NoApply
    /\ DeviceOff
    /\ ToolsIdle

NextStore == TrainPyStart \/ TrainPyAnswer \/ LearnPy

SpecStore == InitStore /\ [][NextStore]_vars

\* C7 as claimed: a learning pass enumerates, for every sample the UI has
\* saved, a record of that sample carrying the corrected text the UI saved.
C7_CorrectionsReachLearner ==
    lastPass.tool # "none" =>
        \A x \in DOMAIN lastPass.uiSaved :
            \E k \in 1..Len(lastPass.samples) :
                /\ lastPass.samples[k]["id"] = x
                /\ lastPass.samples[k]["corrected_text"] = lastPass.uiSaved[x]

\* the members the correction UI must hand back as it read them
FrameKeys == {"id", "timestamp", "ocr_text", "image_path"}

\* the files other than the one at path are after the step what they were
OthersUntouched(path) ==
    /\ DOMAIN files' = DOMAIN files
    /\ \A d \in DOMAIN files :
           /\ DOMAIN files'[d] = DOMAIN files[d]
           /\ \A n \in DOMAIN files[d] :
                  (d # TRAINING_DIR \/ n # path) => files'[d][n] = files[d][n]

\* C12: whatever the user answers at a prompt, no file but the one of the
\* sample shown changes; after Enter or a typed text that file decodes to a
\* record with the id, timestamp, ocr_text and image_path of the record read;
\* after 's', 'q' or the end of the input no file is written at all.
C12_UiFrame ==
    [][ (ui.phase = "prompt" /\ ui' # ui) =>
            LET sample == ui.samples[ui.i]
                path   == sample["json_path"]
            IN  /\ OthersUntouched(path)
                /\ IF ui'.answered \in {"enter", "typed"}
                   THEN /\ Decodable(files'[TRAINING_DIR][path])
                        /\ \A key \in FrameKeys :
                               Decode(files'[TRAINING_DIR][path])[key] = sample[key]
                   ELSE files' = files ]_vars

\* C12 witness: the typed correction of the first sample was saved over its
\* record, and the second sample was then skipped
C12_Witness ==
    /\ ui.answered = "skip"
    /\ ui.i = 3
    /\ Decode(files[TRAINING_DIR][JsonName(1)])["corrected_text"] = TheA
    /\ Decode(files[TRAINING_DIR][JsonName(1)])["ocr_text"] = TehA
    /\ ui.samples[1]["corrected_text"] = TheA

(* ----------------------------------------------------------------------- *)
(* Captures and corrections side by side                                   *)
(* ----------------------------------------------------------------------- *)

\* nothing captured yet; the correction UI's directory is absent or holds
\* two samples put there by hand
InitCapture ==
    /\ files \in { Disk({}, <<>>), Disk({TRAINING_DIR}, EarlierSamples) }
    /\ rulesFile = NoFile
    /\ learned_corrections = EmptyRules
    /\ lastPass = NoPass
    /\ applied = NoApply
    /\ DeviceOff
    /\ ToolsIdle

NextCapture == getData \/ TrainPyStart \/ TrainPyAnswer

SpecCapture == InitCapture /\ [][NextCapture]_vars

\* the sample records of the store the captures are written to
StoredRecords ==
    IF ~DirExists(files, TRAINING_DATA_DIR) THEN {}
    ELSE { n \in DOMAIN files[TRAINING_DATA_DIR] : EndsWithJson(n) }

\* C11 as claimed: after any sequence of captures and corrections the store
\* holds one sample record per processed capture, each under an id of its own.
C11_CaptureCreates ==
    /\ Cardinality(StoredRecords) = captures
    /\ \A n, m \in StoredRecords :
           Decode(files[TRAINING_DATA_DIR][n])["id"]
               = Decode(files[TRAINING_DATA_DIR][m])["id"] => n = m

(* ----------------------------------------------------------------------- *)
(* A save and a load of one sample file, system call by system call        *)
(* ----------------------------------------------------------------------- *)

\* a file opened for update keeps its content
KeepingContent(content) == content

\* open(path, 'w') on an existing file: nothing is left of its content
OpenForWriting(content) == <<>>

\* write() of a chunk at the file position offset
WriteAt(content, offset, chunk) ==
    SubSeq(content, 1, offset) \o chunk
    \o SubSeq(content, offset + Len(chunk) + 1, Len(content))

\* the texts a save may carry: as long as, shorter and longer than the old one
SaveTexts == {TheA, The, <<"t", "h", "e", " ", "a", "b">>}

\* train.py save_sample for a typed correction, and the record
\* save_training_sample writes for a capture in the second of an earlier one
SaveOpen ==
    /\ writer.phase = "idle"
    /\ \E text \in SaveTexts :
         \E target \in
              { [dir |-> TRAINING_DIR, name |-> n,
                 data |-> Encode(("corrected_text" :> text)
                                     @@ Decode(files[TRAINING_DIR][n]), SampleKeys)] :
                  n \in { m \in DOMAIN files[TRAINING_DIR] :
                            EndsWithJson(m) /\ Decodable(files[TRAINING_DIR][m]) } }
              \cup
              { [dir |-> TRAINING_DATA_DIR, name |-> JsonName(now),
                 data |-> Encode(SampleRecord(now, text, text), SampleKeys)] } :
           /\ target.name \in DOMAIN files[target.dir]
           /\ writer' = [phase |-> "open", dir |-> target.dir, name |-> target.name,
                         old |-> files[target.dir][target.name],
                         data |-> target.data, written |-> 0]
           /\ files' = WriteFile(files, target.dir, target.name,
                                 OpenForWriting(files[target.dir][target.name]))
    /\ UNCHANGED <<rulesFile, learned_corrections, lastPass, applied, deviceVars, ui,
                   reader>>

\* json.dump's text reaches the file in one write or in several
SaveWrite ==
    /\ writer.phase = "open"
    /\ \E n \in 1..(Len(writer.data) - writer.written) :
           /\ files' = WriteFile(files, writer.dir, writer.name,
                                 WriteAt(files[writer.dir][writer.name], writer.written,
                                         SubSeq(writer.data, writer.written + 1,
                                                writer.written + n)))
           /\ writer' = [writer EXCEPT !.written = writer.written + n]
    /\ UNCHANGED <<rulesFile, learned_corrections, lastPass, applied, deviceVars, ui,
                   reader>>

\* the with block is left once everything is written
SaveClose ==
    /\ writer.phase = "open"
    /\ writer.written = Len(writer.data)
    /\ writer' = [writer EXCEPT !.phase = "closed"]
    /\ UNCHANGED <<files, rulesFile, learned_corrections, lastPass, applied, deviceVars,
                   ui, reader>>

\* open(path, 'r') of a sample file by a loader
ReadOpen ==
    /\ reader.phase = "idle"
    /\ \E dir \in DOMAIN files :
         \E name \in { n \in DOMAIN files[dir] : EndsWithJson(n) } :
           reader' = [phase |-> "open", dir |-> dir, name |-> name, size |-> 0,
                      buffer |-> <<>>]
    /\ UNCHANGED <<files, rulesFile, learned_corrections, lastPass, applied, deviceVars,
                   ui, writer>>

\* f.read() first asks for the size of the file
ReadStat ==
    /\ reader.phase = "open"
    /\ reader' = [reader EXCEPT !.phase = "reading",
                                !.size = Len(files[reader.dir][reader.name])]
    /\ UNCHANGED <<files, rulesFile, learned_corrections, lastPass, applied, deviceVars,
                   ui, writer>>

\* then reads at its offset: up to one more than that size at first, all
\* there is once that much is read or when the size was zero; a read that
\* returns nothing ends the load and json.load decodes the buffer
ReadChunk ==
    /\ reader.phase = "reading"
    /\ \E there \in {Max({0, Len(files[reader.dir][reader.name]) - Len(reader.buffer)})} :
         \E n \in {IF reader.size = 0 \/ Len(reader.buffer) > reader.size THEN there
                   ELSE Min({there, reader.size + 1 - Len(reader.buffer)})} :
           reader' = IF n = 0 THEN [reader EXCEPT !.phase = "done"]
                     ELSE [reader EXCEPT !.buffer =
                               reader.buffer
                               \o SubSeq(files[reader.dir][reader.name],
                                         Len(reader.buffer) + 1, Len(reader.buffer) + n)]
    /\ UNCHANGED <<files, rulesFile, learned_corrections, lastPass, applied, deviceVars,
                   ui, writer>>

\* one sample from an earlier capture in the UI's directory, and one captured
\* this second in the device's
SaveDisk ==
    [d \in {TRAINING_DIR, TRAINING_DATA_DIR} |->
        IF d = TRAINING_DIR
        THEN (JsonName(1) :> Encode(SampleRecord(1, TehA, TehA), SampleKeys))
        ELSE (JsonName(StartTime) :>
                  Encode(SampleRecord(StartTime, TehA, TehA), SampleKeys))]

InitSave ==
    /\ files = SaveDisk
    /\ rulesFile = NoFile
    /\ learned_corrections = EmptyRules
    /\ lastPass = NoPass
    /\ applied = NoApply
    /\ DeviceOff
    /\ ToolsIdle

NextSave == SaveOpen \/ SaveWrite \/ SaveClose \/ ReadOpen \/ ReadStat \/ ReadChunk

SpecSave == InitSave /\ [][NextSave]_vars

\* whether the load has ended on the file the save is about
LoadedDuringSave ==
    /\ reader.phase = "done"
    /\ writer.phase # "idle"
    /\ reader.dir = writer.dir
    /\ reader.name = writer.name

\* C10: what a load made while the record is being overwritten decodes, if
\* it decodes at all, is the old record or the new one.
C10_AtomicSave ==
    (LoadedDuringSave /\ Decodable(reader.buffer))
        => \/ Decode(reader.buffer) = Decode(writer.old)
           \/ Decode(reader.buffer) = Decode(writer.data)

\* C10, its case: a load that ran into the save and read part of the new
\* record, which does not decode
C10_Witness ==
    /\ LoadedDuringSave
    /\ writer.phase = "open"
    /\ reader.buffer # <<>>
    /\ ~Decodable(reader.buffer)

====
